---- MODULE Spec2Model ----
(***************************************************************************)
(* Model of the analysis and recommendation engine of the FSx waste        *)
(* analyzer, lambda/src/main.py: pct_calc, p95_mb_s, process_volume,       *)
(* check_encryption and analyze_filesystems, and the response that         *)
(* lambda_handler builds from them.                                        *)
(*                                                                         *)
(* Units.  Metric samples are the per-period byte sums already divided by  *)
(* mb * period, counted in hundredths of a MB/s; throughputs (percentiles  *)
(* of those samples and their sums) are counted in 1/RateScale MB/s, so    *)
(* that the interpolated percentile is an integer.  Logical and physical   *)
(* sizes are counted in GiB.  Prices are in thousandths of a dollar.       *)
(*                                                                         *)
(* Arithmetic.  The values Python computes from two integers by a float    *)
(* division (the slack percentage, the percentile rank, the efficiency     *)
(* percentage and the efficiency ratio that is rendered) are computed in   *)
(* IEEE-754 binary64, as the interpreter does.  Throughputs, which are     *)
(* floats built from float samples, are exact rationals here; the product  *)
(* of a whole total with 1.2 is again computed in binary64.                *)
(*                                                                         *)
(* Left out of the reports: the fields copied from the descriptors or the  *)
(* collaborators without a decision depending on them (gen, state,         *)
(* deployment_type, tags, svmid, svmname, path, tiering_policy,            *)
(* long_term_io, usage_percentage, the volume's monthly_cost_estimate and  *)
(* the rendered storage_efficiency string of a processed filesystem).      *)
(***************************************************************************)
EXTENDS Integers, Sequences, FiniteSets, TLC

\* ------------------------------------------------------------------------
\* Bounds of the model
\* ------------------------------------------------------------------------
MaxFs == 2          \* filesystems in the fleet (Spec)
MaxVols == 2        \* volumes of one filesystem
MaxGib == 50        \* capacity and provisioned GiB of the slack computation
MaxLen == 5         \* samples handed to pct_calc
MaxSample == 5      \* largest sample handed to pct_calc
MaxBytes == 4       \* logical / physical size of a volume

\* ------------------------------------------------------------------------
\* Program constants
\* ------------------------------------------------------------------------
pctl == 95                  \* PCTL default
ColdIoThresholdPct == 1     \* cold_io_threshold = 0.01 MB/s, in hundredths
RateScale == 10000          \* throughput unit: 1 / RateScale MB/s
DefaultPriceMilli == 145    \* get_storage_cost's default 0.145
SmallVolumeGib == 10
SlackHighPct == 80
SlackLowPct == 5
LowEfficiencyPct == 20
MinThroughputTarget == 128

\* ------------------------------------------------------------------------
\* IEEE-754 binary64 arithmetic on values computed from integers.
\* A positive double is m * 2^(exp - 52) with a 53-bit mantissa m, kept as
\* four limbs <<m1, m2, m3, m4>>: m1 the top 11 bits, then three limbs of 14.
\* ------------------------------------------------------------------------
LimbBits == 14
TopBits == 11
Limb == 2^LimbBits

FZero == [neg |-> FALSE, m |-> <<0, 0, 0, 0>>, exp |-> 0]

RECURSIVE ShiftUp(_, _)
ShiftUp(a, b) == IF a >= b THEN 0 ELSE 1 + ShiftUp(2 * a, b)

RECURSIVE ShiftDown(_, _)
ShiftDown(a, b) == IF 2 * b > a THEN 0 ELSE 1 + ShiftDown(a, 2 * b)

\* round to nearest, ties to even: the mantissa plus one when `up`
FRound(m, e, up) ==
    IF ~up THEN [neg |-> FALSE, m |-> m, exp |-> e]
    ELSE LET v4 == m[4] + 1
             v3 == m[3] + (v4 \div Limb)
             v2 == m[2] + (v3 \div Limb)
             v1 == m[1] + (v2 \div Limb)
         IN IF v1 = 2^TopBits
            THEN [neg |-> FALSE, m |-> <<2^(TopBits - 1), 0, 0, 0>>, exp |-> e + 1]
            ELSE [neg |-> FALSE, m |-> <<v1, v2 % Limb, v3 % Limb, v4 % Limb>>, exp |-> e]

\* the long division of a / b (a, b > 0): the 53 leading bits of the quotient,
\* its exponent, the remainder left and the scaled divisor
FDivParts(a, b) ==
    LET t == ShiftUp(a, b)
        e == ShiftDown(a, b)
        A == a * 2^t
        B == b * 2^e
        n1 == A * 2^(TopBits - 1)
        n2 == (n1 % B) * Limb
        n3 == (n2 % B) * Limb
        n4 == (n3 % B) * Limb
    IN [m |-> <<n1 \div B, n2 \div B, n3 \div B, n4 \div B>>, exp |-> e - t,
        r |-> n4 % B, B |-> B]

FDivUp(q) == 2 * q.r > q.B \/ (2 * q.r = q.B /\ q.m[4] % 2 = 1)

\* a / b for integers a >= 0, b > 0: Python's true division of two ints
FDiv(a, b) ==
    IF a = 0 THEN FZero
    ELSE LET q == FDivParts(a, b) IN FRound(q.m, q.exp, FDivUp(q))

\* the sign of float(a / b) - a / b: 0 when the quotient is exact
FDivErr(a, b) ==
    IF a = 0 THEN 0
    ELSE LET q == FDivParts(a, b) IN
         IF q.r = 0 THEN 0 ELSE IF FDivUp(q) THEN 1 ELSE -1

\* k * f for an integer 0 <= k < 2^(LimbBits - 1) and f >= 0: Python's int * float
FMulInt(k, f) ==
    IF f = FZero \/ k = 0 THEN FZero
    ELSE LET v4 == f.m[4] * k
             v3 == f.m[3] * k + (v4 \div Limb)
             v2 == f.m[2] * k + (v3 \div Limb)
             v1 == f.m[1] * k + (v2 \div Limb)
             d == CHOOSE x \in 0..LimbBits :
                      2^(TopBits - 1 + x) <= v1 /\ v1 < 2^(TopBits + x)
             D == 2^d
             U == Limb \div D
             m == << v1 \div D,
                     (v1 % D) * U + ((v2 % Limb) \div D),
                     (v2 % D) * U + ((v3 % Limb) \div D),
                     (v3 % D) * U + ((v4 % Limb) \div D) >>
             dropped == v4 % D
         IN FRound(m, f.exp + d, 2 * dropped > D \/ (2 * dropped = D /\ m[4] % 2 = 1))

FNeg(f) == IF f = FZero THEN f ELSE [f EXCEPT !.neg = ~f.neg]

\* math.floor(f) = int(f) for 0 <= f < 2^(TopBits + LimbBits)
FTrunc(f) ==
    CASE f = FZero \/ f.exp < 0 -> 0
      [] f.exp >= 0 /\ f.exp < TopBits -> f.m[1] \div 2^(TopBits - 1 - f.exp)
      [] f.exp >= TopBits /\ f.exp < TopBits + LimbBits ->
            f.m[1] * 2^(f.exp - TopBits + 1)
              + (f.m[2] \div 2^(TopBits + LimbBits - 1 - f.exp))

\* f is a whole number, for 0 <= f < 2^(TopBits + LimbBits)
FIsInt(f) ==
    CASE f = FZero -> TRUE
      [] f # FZero /\ f.exp < 0 -> FALSE
      [] f # FZero /\ f.exp >= 0 /\ f.exp < TopBits ->
            /\ f.m[1] % 2^(TopBits - 1 - f.exp) = 0
            /\ f.m[2] = 0 /\ f.m[3] = 0 /\ f.m[4] = 0
      [] f # FZero /\ f.exp >= TopBits /\ f.exp < TopBits + LimbBits ->
            /\ f.m[2] % 2^(TopBits + LimbBits - 1 - f.exp) = 0
            /\ f.m[3] = 0 /\ f.m[4] = 0

\* f < k for an integer k >= 0
FLessInt(f, k) == f.neg \/ FTrunc(f) < k

\* f > k for an integer k >= 0
FGreaterInt(f, k) == ~f.neg /\ (FTrunc(f) > k \/ (FTrunc(f) = k /\ ~FIsInt(f)))

\* ------------------------------------------------------------------------
\* f"{x:.2f}"
\* ------------------------------------------------------------------------
Digits == <<"0", "1", "2", "3", "4", "5", "6", "7", "8", "9">>

RECURSIVE IntStr(_)
IntStr(n) == IF n < 10 THEN Digits[n + 1] ELSE IntStr(n \div 10) \o Digits[(n % 10) + 1]

\* the decimal text of h hundredths
Dec2(h) == IntStr(h \div 100) \o "." \o Digits[((h \div 10) % 10) + 1] \o Digits[(h % 10) + 1]

\* the hundredths that f"{a / b:.2f}" shows: the double nearest a / b, rounded
\* to two decimals (half to even when the double is the tie itself)
Hundredths(a, b) ==
    LET h == (100 * a) \div b
        rem == (100 * a) % b
        err == FDivErr(a, b)
        up == \/ 2 * rem > b
              \/ 2 * rem = b /\ (err > 0 \/ (err = 0 /\ h % 2 = 1))
    IN IF up THEN h + 1 ELSE h

Fmt2(a, b) == Dec2(Hundredths(a, b))

\* ------------------------------------------------------------------------
\* pct_calc, p95_mb_s
\* ------------------------------------------------------------------------
RECURSIVE Insert(_, _)
Insert(x, s) ==
    IF s = <<>> THEN <<x>>
    ELSE IF x <= Head(s) THEN <<x>> \o s
    ELSE <<Head(s)>> \o Insert(x, Tail(s))

RECURSIVE sorted(_)
sorted(s) == IF s = <<>> THEN <<>> ELSE Insert(Head(s), sorted(Tail(s)))

\* pct_calc returns its result in hundredths of the unit of `values`
PctUnit == 100

\* pct_calc without `values = sorted(values)`
pct_calc_unsorted(values, p) ==
    IF values = <<>> THEN 0
    ELSE LET n == Len(values) - 1
             r == FMulInt(n, FDiv(p, PctUnit))
             lo == FTrunc(r)
             hi == IF FIsInt(r) THEN lo ELSE lo + 1
         IN IF lo = hi THEN PctUnit * values[lo + 1]
            ELSE PctUnit * values[lo + 1]
                   + (n * p - PctUnit * lo) * (values[hi + 1] - values[lo + 1])

\* The rank r = n * (p / 100) is the double Python computes; lo and hi are
\* its floor and ceiling.  The interpolation itself is exact.
pct_calc(values, p) ==
    IF values = <<>> THEN 0
    ELSE LET v == sorted(values)
             n == Len(v) - 1
             r == FMulInt(n, FDiv(p, PctUnit))
             lo == FTrunc(r)
             hi == IF FIsInt(r) THEN lo ELSE lo + 1
         IN IF lo = hi THEN PctUnit * v[lo + 1]
            ELSE PctUnit * v[lo + 1] + (n * p - PctUnit * lo) * (v[hi + 1] - v[lo + 1])

\* `series` is what get_series returned, each sample already (val / mb) / period
p95_mb_s(series) == pct_calc(sorted(series), pctl)

\* ------------------------------------------------------------------------
\* process_volume
\* ------------------------------------------------------------------------
None == [none |-> TRUE]

Rec(type, message) == [type |-> type, message |-> message]

Separator == Rec("separator", <<>>)

cold_io_threshold == (RateScale * ColdIoThresholdPct) \div 100

\* efficiency_ratio = logical_size / physical_size if physical_size > 0 else 0
efficiency_ratio(logical_size, physical_size) ==
    IF physical_size > 0 THEN FDiv(logical_size, physical_size) ELSE FZero

\* the rendering guarded by physical_size > 0 instead of efficiency_ratio > 0
efficiency_text_by_physical(logical_size, physical_size) ==
    IF physical_size > 0 THEN Fmt2(logical_size, physical_size) ELSE "N/A"

\* f"{efficiency_ratio:.2f}" if efficiency_ratio > 0 else "N/A"
efficiency_text(logical_size, physical_size) ==
    IF FGreaterInt(efficiency_ratio(logical_size, physical_size), 0)
    THEN Fmt2(logical_size, physical_size) ELSE "N/A"

\* efficiency_ratio > 0 and efficiency_ratio < 1.5
LowEfficiencyRatio(ratio) == FGreaterInt(ratio, 0) /\ FLessInt(FMulInt(2, ratio), 3)

\* every finding followed by a separator, the low-efficiency one too
vol_recommendations_all_separated(sizegib, total_io, logical_size, physical_size) ==
    (IF sizegib < SmallVolumeGib
     THEN <<Rec("info", <<"Volume is small", sizegib>>), Separator>> ELSE <<>>)
    \o (IF total_io < cold_io_threshold
        THEN <<Rec("warning", <<"Volume has low IO", total_io>>), Separator>> ELSE <<>>)
    \o (IF LowEfficiencyRatio(efficiency_ratio(logical_size, physical_size))
        THEN <<Rec("info", <<"Storage efficiency ratio is low",
                             Hundredths(logical_size, physical_size)>>), Separator>>
        ELSE <<>>)

vol_recommendations(sizegib, total_io, logical_size, physical_size) ==
    (IF sizegib < SmallVolumeGib
     THEN <<Rec("info", <<"Volume is small", sizegib>>), Separator>> ELSE <<>>)
    \o (IF total_io < cold_io_threshold
        THEN <<Rec("warning", <<"Volume has low IO", total_io>>), Separator>> ELSE <<>>)
    \o (IF LowEfficiencyRatio(efficiency_ratio(logical_size, physical_size))
        THEN <<Rec("info", <<"Storage efficiency ratio is low",
                             Hundredths(logical_size, physical_size)>>)>>
        ELSE <<>>)

\* the failure of a step swallowed, the report returned all the same
process_volume_swallow(vol, r_series, w_series, raises) ==
    LET sizegib == vol.SizeInMegabytes \div 1024
        r95 == p95_mb_s(r_series)
        w95 == p95_mb_s(w_series)
    IN [id |-> vol.VolumeId,
        size_gib |-> sizegib,
        read_throughput_mbs |-> r95,
        write_throughput_mbs |-> w95,
        total_throughput_mbs |-> r95 + w95,
        efficiency_ratio |->
            efficiency_text(vol.LogicalSizeInBytes, vol.PhysicalSizeInBytes),
        recommendations |->
            vol_recommendations(sizegib, r95 + w95, vol.LogicalSizeInBytes,
                                vol.PhysicalSizeInBytes)]

\* `raises`: some step inside the try block raised, and the handler returned None
process_volume(vol, r_series, w_series, raises) ==
    IF raises THEN None
    ELSE LET sizegib == vol.SizeInMegabytes \div 1024
             r95 == p95_mb_s(r_series)
             w95 == p95_mb_s(w_series)
             total_io == r95 + w95
             logical_size == vol.LogicalSizeInBytes
             physical_size == vol.PhysicalSizeInBytes
         IN [id |-> vol.VolumeId,
             size_gib |-> sizegib,
             read_throughput_mbs |-> r95,
             write_throughput_mbs |-> w95,
             total_throughput_mbs |-> total_io,
             efficiency_ratio |-> efficiency_text(logical_size, physical_size),
             recommendations |->
                 vol_recommendations(sizegib, total_io, logical_size, physical_size)]

\* ------------------------------------------------------------------------
\* The slack of a filesystem
\* ------------------------------------------------------------------------
Max(a, b) == IF a >= b THEN a ELSE b

slack_gib(fs_gib, prov_gib) == Max(0, fs_gib - prov_gib)

\* int((100 * (slack_gib / fs_gib)) if fs_gib > 0 else 0)
slack_pct(slack, fs_gib) ==
    IF fs_gib > 0 THEN FTrunc(FMulInt(100, FDiv(slack, fs_gib))) ELSE 0

\* ((total_logical_bytes - total_physical_bytes) / total_logical_bytes * 100)
\* if total_logical_bytes > 0 else 0
storage_efficiency_pct(total_logical_bytes, total_physical_bytes) ==
    IF total_logical_bytes > 0
    THEN IF total_logical_bytes >= total_physical_bytes
         THEN FMulInt(100, FDiv(total_logical_bytes - total_physical_bytes,
                                total_logical_bytes))
         ELSE FNeg(FMulInt(100, FDiv(total_physical_bytes - total_logical_bytes,
                                     total_logical_bytes)))
    ELSE FZero

\* ------------------------------------------------------------------------
\* check_encryption
\* ------------------------------------------------------------------------
NoKey == ""

\* a failed call reported as if the filesystem were encrypted
check_encryption_silent(fs, call_fails) ==
    IF call_fails THEN Rec("info", <<"File system is encrypted">>)
    ELSE IF fs.KmsKeyId = NoKey THEN Rec("warning", <<"File system is not encrypted">>)
    ELSE Rec("info", <<"File system is encrypted">>)

\* `call_fails`: describe_file_systems raised inside check_encryption
check_encryption(fs, call_fails) ==
    IF call_fails THEN Rec("warning", <<"Unable to check encryption status">>)
    ELSE IF fs.KmsKeyId = NoKey THEN Rec("warning", <<"File system is not encrypted">>)
    ELSE Rec("info", <<"File system is encrypted">>)

\* ------------------------------------------------------------------------
\* analyze_filesystems: the reports
\* ------------------------------------------------------------------------
\* the empty fleet reported as an error
EmptyPlaceholderCritical ==
    [fsid |-> "N/A",
     volumes |-> <<>>,
     recommendations |-> <<Rec("critical", <<"No FSx filesystems found.">>)>>]

EmptyPlaceholder ==
    [fsid |-> "N/A",
     storage_gib |-> 0,
     provisioned_gib |-> 0,
     slack_gib |-> 0,
     slack_percentage |-> 0,
     throughput_capacity |-> 0,
     total_read_throughput |-> 0,
     total_write_throughput |-> 0,
     total_throughput |-> 0,
     storage_efficiency_percentage |-> FZero,
     monthly_cost_estimate |-> 0,
     encryption_status |-> Rec("info", <<"No FSx filesystems found.">>),
     volumes |-> <<>>,
     recommendations |-> <<Rec("info", <<"No FSx filesystems found.">>)>>]

ErrorPlaceholder ==
    [fsid |-> "N/A",
     volumes |-> <<>>,
     recommendations |-> <<Rec("critical", <<"Error analyzing filesystems">>)>>]

\* the placeholder appended to the reports already built
analyze_failed_keep(partial) == Append(partial, ErrorPlaceholder)

\* what the except branch of analyze_filesystems returns; `partial` is the
\* results list built so far
analyze_failed(partial) == <<ErrorPlaceholder>>

RECURSIVE SumSize(_)
SumSize(vols) ==
    IF vols = <<>> THEN 0 ELSE Head(vols).SizeInMegabytes + SumSize(Tail(vols))

\* math.ceil(f) for 0 <= f < 2^(TopBits + LimbBits)
FCeil(f) == IF FIsInt(f) THEN FTrunc(f) ELSE FTrunc(f) + 1

\* the literal 1.2: the double nearest 6 / 5
Factor12 == FDiv(6, 5)

\* math.ceil(tot_all * 1.2) in MB/s, tot_all in 1 / RateScale MB/s: the product
\* in binary64 when tot_all is a whole number of MB/s (where the product may be
\* a whole number, and its rounding decides the ceiling), exact otherwise
CeilTimes12(tot_all) ==
    IF tot_all % RateScale = 0
    THEN FCeil(FMulInt(tot_all \div RateScale, Factor12))
    ELSE (tot_all * 12 + 10 * RateScale - 1) \div (10 * RateScale)

\* the high-slack threshold taken inclusively
slack_recommendation_inclusive(pct) ==
    IF pct >= SlackHighPct THEN <<Rec("warning", <<"Slack space is high", pct>>)>>
    ELSE IF pct < SlackLowPct THEN <<Rec("critical", <<"Slack space is low", pct>>)>>
    ELSE <<>>

slack_recommendation(pct) ==
    IF pct > SlackHighPct THEN <<Rec("warning", <<"Slack space is high", pct>>)>>
    ELSE IF pct < SlackLowPct THEN <<Rec("critical", <<"Slack space is low", pct>>)>>
    ELSE <<>>

\* the throughput rule firing at total = capacity too
fs_recommendations_inclusive(encryption_status, pct, tot_all, tp, efficiency_pct) ==
    (IF encryption_status.type = "warning" THEN <<encryption_status>> ELSE <<>>)
    \o slack_recommendation(pct)
    \o (IF tot_all >= tp * RateScale
        THEN <<Rec("critical", <<"Throughput demand exceeds capacity", tot_all, tp,
                                 Max(MinThroughputTarget, CeilTimes12(tot_all))>>)>>
        ELSE <<>>)
    \o (IF FLessInt(efficiency_pct, LowEfficiencyPct)
        THEN <<Rec("info", <<"Storage efficiency is low">>)>> ELSE <<>>)

\* the throughput rule evaluated before the slack rule
fs_recommendations_throughput_first(encryption_status, pct, tot_all, tp, efficiency_pct) ==
    (IF encryption_status.type = "warning" THEN <<encryption_status>> ELSE <<>>)
    \o (IF tot_all > tp * RateScale
        THEN <<Rec("critical", <<"Throughput demand exceeds capacity", tot_all, tp,
                                 Max(MinThroughputTarget, CeilTimes12(tot_all))>>)>>
        ELSE <<>>)
    \o slack_recommendation(pct)
    \o (IF FLessInt(efficiency_pct, LowEfficiencyPct)
        THEN <<Rec("info", <<"Storage efficiency is low">>)>> ELSE <<>>)

fs_recommendations(encryption_status, pct, tot_all, tp, efficiency_pct) ==
    (IF encryption_status.type = "warning" THEN <<encryption_status>> ELSE <<>>)
    \o slack_recommendation(pct)
    \o (IF tot_all > tp * RateScale
        THEN <<Rec("critical", <<"Throughput demand exceeds capacity", tot_all, tp,
                                 Max(MinThroughputTarget, CeilTimes12(tot_all))>>)>>
        ELSE <<>>)
    \o (IF FLessInt(efficiency_pct, LowEfficiencyPct)
        THEN <<Rec("info", <<"Storage efficiency is low">>)>> ELSE <<>>)

\* the report of one filesystem, from the locals `c` of its loop iteration
fs_result(c, price) ==
    LET prov_gib == SumSize(c.vols) \div 1024
        slack == slack_gib(c.fs_gib, prov_gib)
        pct == slack_pct(slack, c.fs_gib)
        efficiency_pct == storage_efficiency_pct(c.total_logical_bytes,
                                                 c.total_physical_bytes)
        tot_all == c.tot_r + c.tot_w
    IN [fsid |-> c.fsid_val,
        storage_gib |-> c.fs_gib,
        provisioned_gib |-> prov_gib,
        slack_gib |-> slack,
        slack_percentage |-> pct,
        throughput_capacity |-> c.tp,
        total_read_throughput |-> c.tot_r,
        total_write_throughput |-> c.tot_w,
        total_throughput |-> tot_all,
        storage_efficiency_percentage |-> efficiency_pct,
        monthly_cost_estimate |-> price * c.fs_gib,
        encryption_status |-> c.encryption_status,
        volumes |-> c.vol_results,
        recommendations |->
            fs_recommendations(c.encryption_status, pct, tot_all, c.tp, efficiency_pct)]

\* ------------------------------------------------------------------------
\* What the collaborators may return
\* ------------------------------------------------------------------------
RECURSIVE SeqsUpTo(_, _)
SeqsUpTo(S, n) ==
    IF n = 0 THEN {<<>>}
    ELSE LET shorter == SeqsUpTo(S, n - 1)
         IN shorter \cup {Append(q, x) : q \in {t \in shorter : Len(t) = n - 1}, x \in S}

FsId(i) == "fs-" \o IntStr(i)
VolId(fsid, k) == fsid \o "/vol-" \o IntStr(k)

\* a filesystem descriptor without its id, and the list get_fs_list returns;
\* HasId is FALSE for a descriptor whose FileSystemId is missing or empty
FsShape(caps, tps, keys, ids) ==
    [StorageCapacity : caps, ThroughputCapacity : tps, KmsKeyId : keys, HasId : ids]

FsDescriptor(i, shape) ==
    [FileSystemId |-> IF shape.HasId THEN FsId(i) ELSE "",
     StorageCapacity |-> shape.StorageCapacity,
     ThroughputCapacity |-> shape.ThroughputCapacity,
     KmsKeyId |-> shape.KmsKeyId]

FsLists(shapes, n) ==
    {[i \in 1..Len(q) |-> FsDescriptor(i, q[i])] : q \in SeqsUpTo(shapes, n)}

VolShape(sizes, bytes) ==
    [SizeInMegabytes : sizes, Bytes : bytes]

VolDescriptor(fsid, k, shape) ==
    [VolumeId |-> VolId(fsid, k),
     SizeInMegabytes |-> shape.SizeInMegabytes,
     LogicalSizeInBytes |-> shape.Bytes[1],
     PhysicalSizeInBytes |-> shape.Bytes[2]]

VolLists(fsid, shapes, n) ==
    {[k \in 1..Len(q) |-> VolDescriptor(fsid, k, q[k])] : q \in SeqsUpTo(shapes, n)}

\* the fleet: several filesystems of one shape
FleetShapes == FsShape({100}, {128}, {"key-1"}, BOOLEAN)
FleetVolShapes == VolShape({5120}, {<<2, 1>>})
FleetIo == {<< <<>>, <<>> >>}
FleetPrices == {DefaultPriceMilli}

\* one filesystem, its volumes and their metrics varied
OneFsShapes == FsShape({0, 100}, {64, 128}, {NoKey, "key-1"}, {TRUE})
OneFsVolShapes ==
    {[SizeInMegabytes |-> 5120, Bytes |-> <<20, 17>>],
     [SizeInMegabytes |-> 16896, Bytes |-> <<2, 1>>],
     [SizeInMegabytes |-> 15360, Bytes |-> <<5, 4>>],
     [SizeInMegabytes |-> 81920, Bytes |-> <<0, 0>>]}
OneFsIo ==
    {<< <<>>, <<>> >>, << <<0, 1>>, <<>> >>, << <<6400>>, <<6400>> >>,
     << <<3500>>, <<3500>> >>}
OneFsPrices == {DefaultPriceMilli}

\* ------------------------------------------------------------------------
\* State
\* ------------------------------------------------------------------------
VARIABLES
    pc,         \* where the invocation stands
    fs_list,    \* analyze_filesystems: what get_fs_list returned
    idx,        \* the position of the for loop in fs_list
    cur,        \* the locals of the current iteration of the for loop
    results,    \* analyze_filesystems: results
    log,        \* what logger.error has written
    response,   \* what lambda_handler returns
    arg,        \* the arguments of the function under study
    ret         \* its return value

vars == <<pc, fs_list, idx, cur, results, log, response, arg, ret>>

NoCur == [none |-> TRUE]
NoResponse == [statusCode |-> 0]

Idle ==
    /\ fs_list = <<>>
    /\ idx = 0
    /\ cur = NoCur
    /\ results = <<>>
    /\ log = <<>>
    /\ response = NoResponse

Init ==
    /\ pc = "start"
    /\ Idle
    /\ arg = <<>>
    /\ ret = <<>>

\* ------------------------------------------------------------------------
\* lambda_handler and analyze_filesystems
\* ------------------------------------------------------------------------
\* fs_list = get_fs_list(); the placeholder when it is empty
GetFsList(lists) ==
    /\ pc = "start"
    /\ \E l \in lists :
          /\ fs_list' = l
          /\ IF l = <<>>
             THEN results' = <<EmptyPlaceholder>> /\ pc' = "respond" /\ idx' = idx
             ELSE results' = <<>> /\ pc' = "for_fs" /\ idx' = 1
    /\ UNCHANGED <<cur, log, response, arg, ret>>

\* for fs in fs_list: the descriptor's fields, check_encryption, get_vols
BeginFs(shapes) ==
    /\ pc = "for_fs"
    /\ idx <= Len(fs_list)
    /\ LET fs == fs_list[idx] IN
       IF fs.FileSystemId = ""
       THEN /\ idx' = idx + 1
            /\ UNCHANGED <<pc, cur, log>>
       ELSE \E call_fails \in BOOLEAN, vols \in VolLists(fs.FileSystemId, shapes, MaxVols) :
            /\ cur' = [fsid_val |-> fs.FileSystemId,
                       fs_gib |-> fs.StorageCapacity,
                       tp |-> fs.ThroughputCapacity,
                       encryption_status |-> check_encryption(fs, call_fails),
                       vols |-> vols,
                       j |-> 1,
                       vol_results |-> <<>>,
                       tot_r |-> 0,
                       tot_w |-> 0,
                       total_logical_bytes |-> 0,
                       total_physical_bytes |-> 0]
            /\ log' = IF call_fails
                      THEN Append(log, <<"Error checking encryption", fs.FileSystemId>>)
                      ELSE log
            /\ pc' = "for_vol"
            /\ idx' = idx
    /\ UNCHANGED <<fs_list, results, response, arg, ret>>

\* the body of `for vol in vols` on the locals `c`: vol_data is appended and
\* accumulated unless it is None
vol_loop_body(c, vol, vol_data) ==
    IF vol_data # None
    THEN [c EXCEPT
            !.j = c.j + 1,
            !.vol_results = Append(c.vol_results, vol_data),
            !.tot_r = c.tot_r + vol_data.read_throughput_mbs,
            !.tot_w = c.tot_w + vol_data.write_throughput_mbs,
            !.total_logical_bytes = c.total_logical_bytes + vol.LogicalSizeInBytes,
            !.total_physical_bytes = c.total_physical_bytes + vol.PhysicalSizeInBytes]
    ELSE [c EXCEPT !.j = c.j + 1]

\* for vol in vols: one iteration
ProcessVol(io) ==
    /\ pc = "for_vol"
    /\ cur.j <= Len(cur.vols)
    /\ \E series \in io, raises \in BOOLEAN :
          /\ cur' = vol_loop_body(cur, cur.vols[cur.j],
                        process_volume(cur.vols[cur.j], series[1], series[2], raises))
          /\ log' = IF raises
                    THEN Append(log, <<"Error processing volume", cur.vols[cur.j].VolumeId>>)
                    ELSE log
    /\ UNCHANGED <<pc, fs_list, idx, results, response, arg, ret>>

\* the report put in front of the earlier ones
FinishFs_prepend(prices) ==
    /\ pc = "for_vol"
    /\ cur.j > Len(cur.vols)
    /\ \E price \in prices : results' = <<fs_result(cur, price)>> \o results
    /\ idx' = idx + 1
    /\ pc' = "for_fs"
    /\ UNCHANGED <<fs_list, cur, log, response, arg, ret>>

\* after the volumes: the aggregates, the recommendations, results.append; the
\* locals of the iteration stay as they are until the next one rebinds them
FinishFs(prices) ==
    /\ pc = "for_vol"
    /\ cur.j > Len(cur.vols)
    /\ \E price \in prices : results' = Append(results, fs_result(cur, price))
    /\ idx' = idx + 1
    /\ pc' = "for_fs"
    /\ UNCHANGED <<fs_list, cur, log, response, arg, ret>>

\* the for loop is exhausted: return results
ReturnResults ==
    /\ pc = "for_fs"
    /\ idx > Len(fs_list)
    /\ pc' = "respond"
    /\ UNCHANGED <<fs_list, idx, cur, results, log, response, arg, ret>>

\* a statement of the for loop raises: the except branch of analyze_filesystems
FleetFailure ==
    /\ \/ pc = "for_fs" /\ idx <= Len(fs_list)
       \/ pc = "for_vol"
    /\ results' = analyze_failed(results)
    /\ log' = Append(log, <<"Error in analyze_filesystems", "">>)
    /\ cur' = NoCur
    /\ pc' = "respond"
    /\ UNCHANGED <<fs_list, idx, response, arg, ret>>

\* lambda_handler returns the analysis
Respond ==
    /\ pc = "respond"
    /\ response' = [statusCode |-> 200, results |-> results]
    /\ pc' = "done"
    /\ UNCHANGED <<fs_list, idx, cur, results, log, arg, ret>>

\* the set-up of lambda_handler raises before the analysis starts
HandlerFailure ==
    /\ pc = "start"
    /\ response' = [statusCode |-> 500]
    /\ log' = Append(log, <<"Error in lambda_handler", "">>)
    /\ pc' = "failed"
    /\ UNCHANGED <<fs_list, idx, cur, results, arg, ret>>

\* the fleet
Next ==
    \/ GetFsList(FsLists(FleetShapes, MaxFs))
    \/ BeginFs(FleetVolShapes)
    \/ ProcessVol(FleetIo)
    \/ FinishFs(FleetPrices)
    \/ ReturnResults
    \/ FleetFailure
    \/ Respond
    \/ HandlerFailure

Spec == Init /\ [][Next]_vars

\* a fleet of at most one filesystem
NextFs ==
    \/ GetFsList(FsLists(OneFsShapes, 1))
    \/ BeginFs(OneFsVolShapes)
    \/ ProcessVol(OneFsIo)
    \/ FinishFs(OneFsPrices)
    \/ ReturnResults
    \/ FleetFailure
    \/ Respond
    \/ HandlerFailure

SpecFs == Init /\ [][NextFs]_vars

\* ------------------------------------------------------------------------
\* process_volume on its own: one call on a volume descriptor and its metrics
\* ------------------------------------------------------------------------
VolumeSizes == {0, 1023, 1024, 10239, 10240, 51200}
VolumeSeries == {<<>>, <<0, 1>>, <<1>>, <<0, 300, 0>>}
VolumeBytes == (0..MaxBytes) \X (0..MaxBytes)

InitVolume ==
    /\ pc = "call"
    /\ Idle
    /\ arg \in [vol : {VolDescriptor(FsId(1), 1, sh) :
                          sh \in VolShape(VolumeSizes, VolumeBytes)},
                r_series : VolumeSeries,
                w_series : VolumeSeries,
                raises : BOOLEAN]
    /\ ret = <<>>

CallProcessVolume ==
    /\ pc = "call"
    /\ ret' = process_volume(arg.vol, arg.r_series, arg.w_series, arg.raises)
    /\ pc' = "return"
    /\ UNCHANGED <<fs_list, idx, cur, results, log, response, arg>>

SpecVolume == InitVolume /\ [][CallProcessVolume]_vars

\* ------------------------------------------------------------------------
\* pct_calc on its own
\* ------------------------------------------------------------------------
Percentiles == {0, 50, 95, 100}

InitPct ==
    /\ pc = "call"
    /\ Idle
    /\ arg \in [values : SeqsUpTo(1..MaxSample, MaxLen), p : Percentiles]
    /\ ret = <<>>

CallPctCalc ==
    /\ pc = "call"
    /\ ret' = pct_calc(arg.values, arg.p)
    /\ pc' = "return"
    /\ UNCHANGED <<fs_list, idx, cur, results, log, response, arg>>

SpecPct == InitPct /\ [][CallPctCalc]_vars

\* ------------------------------------------------------------------------
\* The slack computation of analyze_filesystems on its own
\* ------------------------------------------------------------------------
InitSlack ==
    /\ pc = "call"
    /\ Idle
    /\ arg \in [capacity_gib : 0..MaxGib, provisioned_gib : 0..MaxGib]
    /\ ret = <<>>

CallSlack ==
    /\ pc = "call"
    /\ LET slack == slack_gib(arg.capacity_gib, arg.provisioned_gib)
       IN ret' = [slack_gib |-> slack,
                  slack_percentage |-> slack_pct(slack, arg.capacity_gib)]
    /\ pc' = "return"
    /\ UNCHANGED <<fs_list, idx, cur, results, log, response, arg>>

SpecSlack == InitSlack /\ [][CallSlack]_vars

\* ------------------------------------------------------------------------
\* Properties
\* ------------------------------------------------------------------------
\* the finding a recommendation entry states ("" for a separator)
Kind(rec) == IF rec.message = <<>> THEN "" ELSE rec.message[1]

Kinds(recs) == [i \in 1..Len(recs) |-> <<recs[i].type, Kind(recs[i])>>]

IsSeparator(rec) == rec.type = "separator"

Abs(x) == IF x < 0 THEN -x ELSE x

\* C2 (SpecVolume): the recommendations of a volume report are the triggered
\* findings in the order small volume (size_gib < 10), low IO (total < 0.01
\* MB/s), low efficiency (0 < logical / physical < 1.5), each decided on its
\* own; a separator stands right after every small-volume entry and every
\* low-IO entry and nowhere else.
C2_VolumeRecommendationOrder ==
    (pc = "return" /\ ret # None) =>
        LET recs == ret.recommendations
            logical == arg.vol.LogicalSizeInBytes
            physical == arg.vol.PhysicalSizeInBytes
            small == ret.size_gib < 10
            cold == 100 * ret.total_throughput_mbs < RateScale
            poor == logical > 0 /\ physical > 0 /\ 2 * logical < 3 * physical
            findings == SelectSeq(recs, LAMBDA e : ~IsSeparator(e))
        IN /\ Kinds(findings) =
                (IF small THEN << <<"info", "Volume is small">> >> ELSE <<>>)
                \o (IF cold THEN << <<"warning", "Volume has low IO">> >> ELSE <<>>)
                \o (IF poor THEN << <<"info", "Storage efficiency ratio is low">> >>
                    ELSE <<>>)
           /\ \A i \in 1..Len(recs) :
                 /\ IsSeparator(recs[i]) <=>
                       /\ i > 1
                       /\ Kind(recs[i - 1]) \in {"Volume is small", "Volume has low IO"}
                 /\ Kind(recs[i]) \in {"Volume is small", "Volume has low IO"} =>
                       i < Len(recs) /\ IsSeparator(recs[i + 1])

\* a small, cold volume of low efficiency: three findings, two separators
C2_Witness ==
    /\ pc = "return"
    /\ ret # None
    /\ Kinds(ret.recommendations) =
          << <<"info", "Volume is small">>, <<"separator", "">>,
             <<"warning", "Volume has low IO">>, <<"separator", "">>,
             <<"info", "Storage efficiency ratio is low">> >>

\* C7 (SpecSlack): slack_gib = max(0, capacity_gib - provisioned_gib) and
\* slack_percentage = floor(100 * slack_gib / capacity_gib) when capacity_gib > 0,
\* else 0; so slack_gib >= 0 and 0 <= slack_percentage <= 100.
C7_SlackIsFloorOfPercentage ==
    pc = "return" =>
        LET slack == Max(0, arg.capacity_gib - arg.provisioned_gib)
        IN /\ ret.slack_gib = slack
           /\ ret.slack_gib >= 0
           /\ ret.slack_percentage =
                 (IF arg.capacity_gib > 0 THEN (100 * slack) \div arg.capacity_gib ELSE 0)
           /\ ret.slack_percentage \in 0..100

\* the k-th smallest of the samples, whatever their order
OrderStat(values, k) ==
    CHOOSE x \in {values[i] : i \in 1..Len(values)} :
        /\ Cardinality({i \in 1..Len(values) : values[i] < x}) < k
        /\ Cardinality({i \in 1..Len(values) : values[i] <= x}) >= k

\* C8 (SpecPct): pct_calc returns 0 on no samples; otherwise, with rank
\* r = (n - 1) * p / 100 over the samples in ascending order, the sample at r
\* when r is whole and the linear interpolation between the samples at floor(r)
\* and ceil(r) otherwise; the result does not depend on the order of the input
\* and lies between the least and the greatest sample.  (ret is in hundredths.)
C8_PctCalcInterpolates ==
    pc = "return" =>
        IF arg.values = <<>> THEN ret = 0
        ELSE LET n == Len(arg.values) - 1
                 lo == (n * arg.p) \div 100
                 frac == (n * arg.p) % 100
                 below == OrderStat(arg.values, lo + 1)
             IN /\ ret = IF frac = 0 THEN 100 * below
                         ELSE 100 * below
                                + frac * (OrderStat(arg.values, lo + 2) - below)
                /\ 100 * OrderStat(arg.values, 1) <= ret
                /\ ret <= 100 * OrderStat(arg.values, n + 1)

\* the samples 1..5 out of order: 3 at p = 50 is the same call at the median,
\* 4.8 at p = 95
C8_Witness ==
    /\ pc = "return"
    /\ arg.values = <<5, 1, 4, 2, 3>>
    /\ arg.p = 95
    /\ ret = 480

\* C9 (SpecVolume): the efficiency ratio of a volume is logical / physical when
\* physical > 0 and 0 otherwise, with no division by zero; the report shows
\* "N/A" exactly when that ratio is 0 and the ratio to two decimals otherwise
\* (logical = physical > 0 shows "1.00").
C9_EfficiencyRatioRendering ==
    pc = "return" =>
        LET logical == arg.vol.LogicalSizeInBytes
            physical == arg.vol.PhysicalSizeInBytes
            zero == physical = 0 \/ logical = 0
        IN /\ ~arg.raises => ret # None
           /\ ret # None =>
                 /\ (ret.efficiency_ratio = "N/A") <=> zero
                 /\ ~zero =>
                       \E h \in 0..(100 * logical + 1) :
                           /\ ret.efficiency_ratio = Dec2(h)
                           /\ 2 * Abs(100 * logical - h * physical) <= physical
                 /\ (logical = physical /\ physical > 0) =>
                       ret.efficiency_ratio = "1.00"

\* no physical bytes but some logical ones: a report, showing "N/A"
C9_Witness ==
    /\ pc = "return"
    /\ arg.vol.PhysicalSizeInBytes = 0
    /\ arg.vol.LogicalSizeInBytes > 0
    /\ ret # None
    /\ ret.efficiency_ratio = "N/A"

\* ------------------------------------------------------------------------
\* Properties of the filesystem reports
\* ------------------------------------------------------------------------
\* the reports of filesystems: not the placeholders
IsFsReport(r) == r.fsid # "N/A"

\* the rule of analyze_filesystems a recommendation entry comes from
RuleOf(rec) ==
    CASE Kind(rec) \in {"File system is not encrypted",
                        "Unable to check encryption status"} -> 1
      [] Kind(rec) \in {"Slack space is high", "Slack space is low"} -> 2
      [] Kind(rec) = "Throughput demand exceeds capacity" -> 3
      [] Kind(rec) = "Storage efficiency is low" -> 4

HasRule(r, k) == \E i \in 1..Len(r.recommendations) : RuleOf(r.recommendations[i]) = k

HasKind(r, type, kind) ==
    \E i \in 1..Len(r.recommendations) :
        r.recommendations[i].type = type /\ Kind(r.recommendations[i]) = kind

Logged(what, id) == \E k \in 1..Len(log) : log[k] = <<what, id>>

Last(s) == s[Len(s)]

\* C1 (SpecFs): the recommendations of a filesystem report follow the rule
\* order encryption warning, slack (warning or critical), throughput critical,
\* efficiency info; each rule gives at most one entry, and gives it exactly
\* when it triggered.
C1_FsRecommendationOrder ==
    \A n \in 1..Len(results) :
        IsFsReport(results[n]) =>
            LET r == results[n]
                recs == r.recommendations
            IN /\ \A i \in 1..(Len(recs) - 1) : RuleOf(recs[i]) < RuleOf(recs[i + 1])
               /\ HasRule(r, 1) <=> r.encryption_status.type = "warning"
               /\ HasRule(r, 2) <=> (r.slack_percentage > 80 \/ r.slack_percentage < 5)
               /\ HasRule(r, 3) <=> r.total_throughput > r.throughput_capacity * RateScale
               /\ HasRule(r, 4) <=> FLessInt(r.storage_efficiency_percentage, 20)
               /\ \A i \in 1..Len(recs) :
                     recs[i].type =
                        CASE RuleOf(recs[i]) = 1 -> "warning"
                          [] RuleOf(recs[i]) = 2 ->
                                IF r.slack_percentage > 80 THEN "warning" ELSE "critical"
                          [] RuleOf(recs[i]) = 3 -> "critical"
                          [] RuleOf(recs[i]) = 4 -> "info"

\* slack 90 %, demand above the capacity, efficiency 15 %, a key present:
\* exactly slack warning, throughput critical, efficiency info
C1_Witness ==
    \E n \in 1..Len(results) :
        /\ IsFsReport(results[n])
        /\ fs_list[n].KmsKeyId # NoKey
        /\ results[n].slack_percentage = 90
        /\ results[n].total_throughput > results[n].throughput_capacity * RateScale
        /\ results[n].storage_efficiency_percentage = FMulInt(100, FDiv(15, 100))
        /\ Kinds(results[n].recommendations) =
              << <<"warning", "Slack space is high">>,
                 <<"critical", "Throughput demand exceeds capacity">>,
                 <<"info", "Storage efficiency is low">> >>

\* C3 (Spec): when get_fs_list returns no filesystem, the result is one
\* placeholder report with fsid "N/A", every numeric field 0, no volumes and
\* one recommendation of type info, and the response has status 200.
C3_EmptyFleetPlaceholder ==
    (pc \in {"respond", "done"} /\ fs_list = <<>>) =>
        /\ Len(results) = 1
        /\ LET r == results[1]
           IN /\ r.fsid = "N/A"
              /\ \A f \in {"storage_gib", "provisioned_gib", "slack_gib",
                           "slack_percentage", "throughput_capacity",
                           "total_read_throughput", "total_write_throughput",
                           "total_throughput", "monthly_cost_estimate"} :
                    f \in DOMAIN r /\ r[f] = 0
              /\ "storage_efficiency_percentage" \in DOMAIN r
              /\ r.storage_efficiency_percentage = FZero
              /\ r.volumes = <<>>
              /\ Len(r.recommendations) = 1
              /\ r.recommendations[1].type = "info"
        /\ pc = "done" => response.statusCode = 200 /\ response.results = results

C3_Witness ==
    /\ pc = "done"
    /\ fs_list = <<>>
    /\ response.statusCode = 200
    /\ response.results[1].fsid = "N/A"

VolumeIds(s) == [i \in 1..Len(s) |-> s[i].VolumeId]
ReportIds(s) == [i \in 1..Len(s) |-> s[i].id]

C5_FleetFailureCollapses ==
    (log # <<>> /\ Last(log)[1] = "Error in analyze_filesystems") =>
        /\ Len(results) = 1
        /\ results[1].fsid = "N/A"
        /\ results[1].volumes = <<>>
        /\ Len(results[1].recommendations) = 1
        /\ results[1].recommendations[1].type = "critical"
        /\ pc = "done" => response.results = results

\* the failure came after the first filesystem had been reported
C5_Witness ==
    /\ log # <<>>
    /\ Last(log)[1] = "Error in analyze_filesystems"
    /\ idx = 2
    /\ pc = "done"
    /\ Len(response.results) = 1

\* C6 (SpecFs): the high-slack warning is there exactly when slack_percentage
\* > 80, the low-slack critical exactly when slack_percentage < 5, never both,
\* and from 5 to 80 there is no slack entry.
C6_SlackBands ==
    \A n \in 1..Len(results) :
        IsFsReport(results[n]) =>
            LET r == results[n]
                high == HasKind(r, "warning", "Slack space is high")
                low == HasKind(r, "critical", "Slack space is low")
            IN /\ high <=> r.slack_percentage > 80
               /\ low <=> r.slack_percentage < 5
               /\ ~(high /\ low)
               /\ (5 <= r.slack_percentage /\ r.slack_percentage <= 80) => ~HasRule(r, 2)

\* a report at the edge of the band: 80 % slack and no slack entry
C6_Witness ==
    \E n \in 1..Len(results) :
        /\ IsFsReport(results[n])
        /\ results[n].slack_percentage = 80
        /\ ~HasRule(results[n], 2)

\* C10 as stated (SpecFs): the recommendations hold an encryption warning, as
\* their first entry, if and only if the descriptor has no key reference,
\* whatever the other retrieval steps did.
C10_EncryptionEntryIffNoKey ==
    \A n \in 1..Len(results) :
        IsFsReport(results[n]) =>
            /\ HasRule(results[n], 1) <=> fs_list[n].KmsKeyId = NoKey
            /\ HasRule(results[n], 1) => RuleOf(results[n].recommendations[1]) = 1

\* C10 as amended (SpecFs): the recommendations hold an encryption warning, as
\* their first entry, if and only if the descriptor has no key reference or
\* check_encryption's own retrieval of the filesystem failed; with a key
\* reference and a successful check there is no encryption entry.
C10_EncryptionEntryIffNoKeyOrCheckFailed ==
    \A n \in 1..Len(results) :
        IsFsReport(results[n]) =>
            /\ HasRule(results[n], 1) <=>
                  \/ fs_list[n].KmsKeyId = NoKey
                  \/ Logged("Error checking encryption", results[n].fsid)
            /\ HasRule(results[n], 1) =>
                  /\ RuleOf(results[n].recommendations[1]) = 1
                  /\ results[n].recommendations[1].type = "warning"

\* no key and a successful check: the encryption warning leads the other entries
C10_Witness ==
    \E n \in 1..Len(results) :
        /\ IsFsReport(results[n])
        /\ fs_list[n].KmsKeyId = NoKey
        /\ ~Logged("Error checking encryption", results[n].fsid)
        /\ Len(results[n].recommendations) > 1
        /\ Kind(results[n].recommendations[1]) = "File system is not encrypted"

\* ------------------------------------------------------------------------
\* Properties of the filesystem loop
\* ------------------------------------------------------------------------
FileSystemIds(s) == [i \in 1..Len(s) |-> s[i].FileSystemId]
ReportFsids(s) == [i \in 1..Len(s) |-> s[i].fsid]

\* analyze_filesystems is in or past its loop and its except branch was not taken
NormalPath ==
    /\ pc \in {"for_fs", "for_vol", "respond", "done"}
    /\ fs_list # <<>>
    /\ ~Logged("Error in analyze_filesystems", "")

\* C11 as stated (Spec): on the normal path with a non-empty filesystem list
\* the returned results hold one report per entry of the list, result i with
\* the fsid of entry i.
C11_OneReportPerEntry ==
    (NormalPath /\ pc \in {"respond", "done"}) =>
        /\ Len(results) = Len(fs_list)
        /\ \A i \in 1..Len(results) : results[i].fsid = fs_list[i].FileSystemId

\* C11 as amended (Spec): on the normal path the results hold, in the order
\* received, one report per entry already iterated that carries a filesystem
\* id, and none for an entry whose id is missing; at the return that is every
\* entry of the list with an id, none of them skipped, duplicated or reordered.
C11_OneReportPerEntryWithId ==
    NormalPath =>
        /\ ReportFsids(results) =
              SelectSeq(FileSystemIds(SubSeq(fs_list, 1, idx - 1)), LAMBDA id : id # "")
        /\ pc \in {"respond", "done"} => idx = Len(fs_list) + 1

\* the first entry has no id, the second has: one report, for the second
C11_Witness ==
    /\ NormalPath
    /\ pc = "done"
    /\ Len(fs_list) = 2
    /\ fs_list[1].FileSystemId = ""
    /\ ReportFsids(response.results) = <<FsId(2)>>

\* ------------------------------------------------------------------------
\* Properties of the throughput rule
\* ------------------------------------------------------------------------
CeilDiv(a, b) == (a + b - 1) \div b

ThroughputEntries(r) ==
    SelectSeq(r.recommendations, LAMBDA rec : Kind(rec) = "Throughput demand exceeds capacity")

\* C12 (SpecFs): in every filesystem report total_throughput is the sum of the
\* read and write totals; the throughput critical entry is present exactly when
\* total_throughput > throughput_capacity (none at total = capacity); its
\* target is max(128, ceil(total_throughput * 1.2)), so never below 128 and
\* never below the total.
C12_ThroughputTarget ==
    \A n \in 1..Len(results) :
        IsFsReport(results[n]) =>
            LET r == results[n]
                total == r.total_throughput
                entries == ThroughputEntries(r)
            IN /\ total = r.total_read_throughput + r.total_write_throughput
               /\ Len(entries) = IF total > r.throughput_capacity * RateScale THEN 1 ELSE 0
               /\ total = r.throughput_capacity * RateScale => entries = <<>>
               /\ \A i \in 1..Len(entries) :
                     /\ entries[i].type = "critical"
                     /\ entries[i].message[4] =
                           Max(128, CeilDiv(12 * total, 10 * RateScale))
                     /\ entries[i].message[4] >= 128
                     /\ entries[i].message[4] * RateScale >= total

\* 140 MB/s against a capacity of 64: the product 140 * 1.2 is the whole number
\* 168, and the target is 168
C12_Witness ==
    \E n \in 1..Len(results) :
        /\ IsFsReport(results[n])
        /\ results[n].throughput_capacity = 64
        /\ results[n].total_throughput = 140 * RateScale
        /\ Len(ThroughputEntries(results[n])) = 1
        /\ ThroughputEntries(results[n])[1].message[4] = 168

\* ------------------------------------------------------------------------
\* Properties of the filesystem aggregates
\* ------------------------------------------------------------------------
RECURSIVE SumSeq(_)
SumSeq(s) == IF s = <<>> THEN 0 ELSE Head(s) + SumSeq(Tail(s))

\* the last report appended is that of the iteration whose locals are in cur
LastReported ==
    /\ pc \in {"for_fs", "respond", "done"}
    /\ cur # NoCur
    /\ results # <<>>
    /\ Last(results).fsid = cur.fsid_val

\* the descriptors of the volumes that the report lists
Listed(r, vols) ==
    SelectSeq(vols, LAMBDA v : \E i \in 1..Len(r.volumes) : r.volumes[i].id = v.VolumeId)

\* C13 (SpecFs): every aggregate of a filesystem report is taken over the
\* volumes in its volumes list: the read and write totals are the sums of the
\* listed volumes' percentiles, the logical and physical byte sums are those
\* of the listed volumes, and provisioned_gib is floor(sum of the listed
\* volumes' size in MiB / 1024); a dropped volume counts in none of them.
C13_AggregatesOverListedVolumes ==
    LastReported =>
        LET r == Last(results)
            listed == Listed(r, cur.vols)
        IN /\ r.total_read_throughput =
                 SumSeq([i \in 1..Len(r.volumes) |-> r.volumes[i].read_throughput_mbs])
           /\ r.total_write_throughput =
                 SumSeq([i \in 1..Len(r.volumes) |-> r.volumes[i].write_throughput_mbs])
           /\ cur.total_logical_bytes =
                 SumSeq([i \in 1..Len(listed) |-> listed[i].LogicalSizeInBytes])
           /\ cur.total_physical_bytes =
                 SumSeq([i \in 1..Len(listed) |-> listed[i].PhysicalSizeInBytes])
           /\ r.provisioned_gib =
                 SumSeq([i \in 1..Len(listed) |-> listed[i].SizeInMegabytes]) \div 1024

====
